---- MODULE Spec2Model ----
(***************************************************************************)
(* Model of the training-metrics Logger of src/logger.py.                  *)
(*                                                                         *)
(* A float is modelled by its number of tenths (5 is 0.5, -15 is -1.5).    *)
(* A file is the sequence of characters it holds; the storage directory    *)
(* is a function from the paths that exist to their contents.  A call of  *)
(* plot is recorded with the series it draws into each chart file.  A run  *)
(* is a bounded sequence of calls, a fresh construction on the same        *)
(* directory being one of them.                                            *)
(***************************************************************************)
EXTENDS Integers, Sequences, FiniteSets, TLC

\* ------------------------------------------------------------------ bounds
MaxSteps == 4       \* most calls made in one run
MaxEpochArg == 2    \* largest epoch argument tried
MaxPeriod == 2      \* largest plot period tried
MaxSummaryArg == 1  \* largest epoch index passed to the summary operations

\* ------------------------------------------------- declared keys and inputs
\* meta_info_dict.keys(), in insertion order
KeyOrder == <<"loss", "acc">>
Keys == {KeyOrder[i] : i \in 1..Len(KeyOrder)}

\* floats (in tenths) a caller logs
FloatVals == {5, -15}
\* values a caller may put in the argument of log_info: floats and an int
ArgVals == [type : {"float"}, v : FloatVals] \cup {[type |-> "int", v |-> 1]}
Float(t) == [type |-> "float", v |-> t]
AnInt == [type |-> "int", v |-> 1]
\* arguments of log_info: a float for every declared key (two of them, and
\* one with an undeclared key added), a declared key missing, an int for a
\* declared key
FullDicts == {[loss |-> Float(5), acc |-> Float(-15)],
              [loss |-> Float(-15), acc |-> Float(5)]}
ArgDicts ==
  FullDicts
  \cup {[loss |-> Float(5), acc |-> Float(-15), extra |-> Float(5)]}
  \cup {[loss |-> Float(5)], [acc |-> Float(5)]}
  \cup {[loss |-> Float(5), acc |-> AnInt], [loss |-> AnInt, acc |-> Float(5)]}
\* epoch arguments of save_epoch and load_epoch
EpochArgs == (0 - 1)..MaxEpochArg
\* plot periods the constructor is given
Periods == 0..MaxPeriod
\* epoch indices passed to print_epoch_summary and save_epoch_summary; the
\* index -1 is passed by the last-epoch variants
SummaryArgs == 0..MaxSummaryArg

\* ------------------------------------------------------- text conversions
Digit == <<"0", "1", "2", "3", "4", "5", "6", "7", "8", "9">>
DigitVal(c) == CHOOSE d \in 0..9 : Digit[d + 1] = c
Abs(n) == IF n < 0 THEN 0 - n ELSE n

RECURSIVE Digits(_)
Digits(n) == IF n < 10 THEN <<Digit[n + 1]>>
             ELSE Append(Digits(n \div 10), Digit[(n % 10) + 1])

\* f'{epoch:02d}': the sign counts in the width of 2
Format02d(epoch) ==
  LET d == Digits(Abs(epoch))
  IN IF epoch < 0 THEN <<"-">> \o d
     ELSE IF Len(d) < 2 THEN <<"0">> \o d ELSE d

\* os.path.join(self.log_dir_path, f'{k}_{epoch:02d}.json')
EpochPath(k, epoch) == <<k, "_">> \o Format02d(epoch) \o <<".json">>

\* FloatRepr without the sign
FloatRepr_unsigned(t) ==
  Digits(Abs(t) \div 10) \o <<".">> \o <<Digit[(Abs(t) % 10) + 1]>>

\* float.__repr__ as json.dump writes it, for floats with one decimal
FloatRepr(t) ==
  (IF t < 0 THEN <<"-">> ELSE <<>>) \o Digits(Abs(t) \div 10) \o <<".">>
     \o <<Digit[(Abs(t) % 10) + 1]>>

RECURSIVE DumpItems(_, _)
DumpItems(seq, i) ==
  IF i > Len(seq) THEN <<>>
  ELSE (IF i > 1 THEN <<",">> ELSE <<>>) \o FloatRepr(seq[i]) \o DumpItems(seq, i + 1)

\* json.dump(list, f, indent=4); the white space of the indentation is left out
JsonDump(seq) == <<"[">> \o DumpItems(seq, 1) \o <<"]">>

RECURSIVE ParseDigits(_, _, _)
\* value of the digits of chars from position i up to the "." or the end
ParseDigits(chars, i, acc) ==
  IF i > Len(chars) \/ chars[i] = "." THEN acc
  ELSE ParseDigits(chars, i + 1, acc * 10 + DigitVal(chars[i]))

\* float(literal) of one JSON number literal
ParseFloat(chars) ==
  LET neg == chars[1] = "-"
      body == IF neg THEN SubSeq(chars, 2, Len(chars)) ELSE chars
      whole == ParseDigits(body, 1, 0)
      frac == DigitVal(body[Len(body)])
      mag == whole * 10 + frac
  IN IF neg THEN 0 - mag ELSE mag

RECURSIVE ParseItems_reversed(_, _, _, _)
\* ParseItems that puts each item before the ones read so far
ParseItems_reversed(text, i, cur, acc) ==
  IF text[i] = "]" THEN (IF cur = <<>> THEN acc ELSE <<ParseFloat(cur)>> \o acc)
  ELSE IF text[i] = ","
       THEN ParseItems_reversed(text, i + 1, <<>>, <<ParseFloat(cur)>> \o acc)
  ELSE ParseItems_reversed(text, i + 1, Append(cur, text[i]), acc)

RECURSIVE ParseItems(_, _, _, _)
ParseItems(text, i, cur, acc) ==
  IF text[i] = "]" THEN (IF cur = <<>> THEN acc ELSE Append(acc, ParseFloat(cur)))
  ELSE IF text[i] = "," THEN ParseItems(text, i + 1, <<>>, Append(acc, ParseFloat(cur)))
  ELSE ParseItems(text, i + 1, Append(cur, text[i]), acc)

\* json.load(f): an empty file is not a JSON document
JsonLoad(text) ==
  IF text = <<>> THEN [res |-> "JSONDecodeError", value |-> <<>>]
  ELSE [res |-> "ok", value |-> ParseItems(text, 2, <<>>, <<>>)]

\* --------------------------------------------------------------- the state
VARIABLES
  periodic_plot,   \* self.periodic_plot
  period,          \* self.period
  info,            \* self.info: sequence of records key -> sequence of floats
  plot_counter,    \* self.plot_counter
  is_loading,      \* self.is_loading
  files,           \* the JSON files of log_dir_path: path -> characters
  alive,           \* FALSE once a constructor call has raised
  last,            \* the last call: [op, arg, res, renders]
  dirty,           \* positions of info changed since they were last saved
  steps,           \* calls made so far in this run
  roundtrip,       \* progress of a save_epoch(e); new_epoch(); load_epoch(e) sequence
  n_logged,        \* log_info calls that returned since construction
  n_log_renders    \* plot renders those calls triggered

vars == <<periodic_plot, period, info, plot_counter, is_loading, files,
          alive, last, dirty, steps, roundtrip, n_logged, n_log_renders>>

\* the Logger object and its directory, as the methods below transform them;
\* renders lists, for every plot() call made, the number of records it saw
\* and the series it drew into each <key>.pdf
Self == [info |-> info, plot_counter |-> plot_counter, is_loading |-> is_loading,
         files |-> files, renders |-> <<>>, res |-> "ok"]

\* EmptyRecord with the first declared key only
EmptyRecord_first_key == [k \in {KeyOrder[1]} |-> <<>>]

\* {k: [] for k in self.meta_info_dict.keys()}
EmptyRecord == [k \in Keys |-> <<>>]

RECURSIVE Gather_newest_first(_, _, _)
\* Gather that puts the values of later records first
Gather_newest_first(inf, k, i) ==
  IF i > Len(inf) THEN <<>> ELSE Gather_newest_first(inf, k, i + 1) \o inf[i][k]

RECURSIVE Gather(_, _, _)
\* the values of key k over the records i..Len(inf), in order
Gather(inf, k, i) == IF i > Len(inf) THEN <<>> ELSE inf[i][k] \o Gather(inf, k, i + 1)

\* Logger.plot
Logger_plot(s) ==
  [s EXCEPT !.renders = Append(@, [seen |-> Len(s.info),
                                   series |-> [k \in Keys |-> Gather(s.info, k, 1)]])]

\* Logger.new_epoch without the test of self.is_loading
Logger_new_epoch_also_loading(s) ==
  LET p == IF periodic_plot THEN Logger_plot(s) ELSE s
  IN [p EXCEPT !.info = Append(@, EmptyRecord)]

\* Logger.new_epoch
Logger_new_epoch(s) ==
  LET p == IF ~s.is_loading /\ periodic_plot THEN Logger_plot(s) ELSE s
  IN [p EXCEPT !.info = Append(@, EmptyRecord)]

RECURSIVE LogKeys_unchecked(_, _, _)
\* LogKeys without `assert type(v) is float`
LogKeys_unchecked(s, info_to_log, i) ==
  IF i > Len(KeyOrder) THEN s
  ELSE LET k == KeyOrder[i] IN
    IF k \notin DOMAIN info_to_log THEN [s EXCEPT !.res = "KeyError"]
    ELSE IF Len(s.info) = 0 THEN [s EXCEPT !.res = "IndexError"]
    ELSE LogKeys_unchecked([s EXCEPT !.info[Len(s.info)][k] = Append(@, info_to_log[k].v)],
                           info_to_log, i + 1)

RECURSIVE LogKeys_prepends(_, _, _)
\* LogKeys that puts the value at the front of the list
LogKeys_prepends(s, info_to_log, i) ==
  IF i > Len(KeyOrder) THEN s
  ELSE LET k == KeyOrder[i] IN
    IF k \notin DOMAIN info_to_log THEN [s EXCEPT !.res = "KeyError"]
    ELSE IF info_to_log[k].type # "float" THEN [s EXCEPT !.res = "AssertionError"]
    ELSE IF Len(s.info) = 0 THEN [s EXCEPT !.res = "IndexError"]
    ELSE LogKeys_prepends([s EXCEPT !.info[Len(s.info)][k] = <<info_to_log[k].v>> \o @],
                          info_to_log, i + 1)

RECURSIVE LogKeys(_, _, _)
\* the loop of log_info from the i-th declared key on
LogKeys(s, info_to_log, i) ==
  IF i > Len(KeyOrder) THEN s
  ELSE LET k == KeyOrder[i] IN
    IF k \notin DOMAIN info_to_log THEN [s EXCEPT !.res = "KeyError"]
    ELSE IF info_to_log[k].type # "float" THEN [s EXCEPT !.res = "AssertionError"]
    ELSE IF Len(s.info) = 0 THEN [s EXCEPT !.res = "IndexError"]
    ELSE LogKeys([s EXCEPT !.info[Len(s.info)][k] = Append(@, info_to_log[k].v)],
                 info_to_log, i + 1)

\* Logger.log_info without the period: every call that returns plots
Logger_log_info_every_call(s, info_to_log) ==
  LET a == LogKeys(s, info_to_log, 1) IN
  IF a.res # "ok" \/ ~periodic_plot THEN a
  ELSE IF period = 0 THEN [a EXCEPT !.res = "ZeroDivisionError"]
  ELSE Logger_plot([a EXCEPT !.plot_counter = (@ + 1) % period])

\* Logger.log_info
Logger_log_info(s, info_to_log) ==
  LET a == LogKeys(s, info_to_log, 1) IN
  IF a.res # "ok" \/ ~periodic_plot THEN a
  ELSE IF period = 0 THEN [a EXCEPT !.res = "ZeroDivisionError"]
  ELSE LET c == [a EXCEPT !.plot_counter = (@ + 1) % period]
       IN IF c.plot_counter = 0 THEN Logger_plot(c) ELSE c

\* InRange that takes no negative index
InRange_from_zero(inf, epoch) == epoch < Len(inf) /\ epoch >= 0

\* self.info[epoch] is defined: Python list indexing, negative indices included
InRange(inf, epoch) == epoch < Len(inf) /\ epoch >= 0 - Len(inf)
\* the position (from 1) of self.info[epoch]
Pos(inf, epoch) == IF epoch < 0 THEN Len(inf) + epoch + 1 ELSE epoch + 1

RECURSIVE SaveKeys(_, _, _)
\* the loop of save_epoch from the i-th declared key on: open(path, 'w')
\* empties or creates the file before self.info[epoch] is evaluated
SaveKeys(s, epoch, i) ==
  IF i > Len(KeyOrder) THEN s
  ELSE LET k == KeyOrder[i]
           path == EpochPath(k, epoch)
           opened == [p \in DOMAIN s.files \cup {path} |->
                        IF p = path THEN <<>> ELSE s.files[p]]
       IN IF ~InRange(s.info, epoch)
          THEN [s EXCEPT !.files = opened, !.res = "IndexError"]
          ELSE SaveKeys([s EXCEPT !.files =
                           [opened EXCEPT ![path] = JsonDump(s.info[Pos(s.info, epoch)][k])]],
                        epoch, i + 1)

\* Logger.save_epoch
Logger_save_epoch(s, epoch) == SaveKeys(s, epoch, 1)

\* Logger.save_last_epoch
Logger_save_last_epoch(s) == Logger_save_epoch(s, Len(s.info) - 1)

RECURSIVE LoadKeys_first_key_only(_, _, _)
\* LoadKeys that passes over a missing file of any key but the first
LoadKeys_first_key_only(s, epoch, i) ==
  IF i > Len(KeyOrder) THEN s
  ELSE LET k == KeyOrder[i]
           path == EpochPath(k, epoch)
       IN IF path \notin DOMAIN s.files
          THEN (IF i = 1 THEN [s EXCEPT !.res = "FileNotFoundError"]
                ELSE LoadKeys_first_key_only(s, epoch, i + 1))
          ELSE LET key_info == JsonLoad(s.files[path]) IN
            IF key_info.res # "ok" THEN [s EXCEPT !.res = key_info.res]
            ELSE IF Len(s.info) = 0 THEN [s EXCEPT !.res = "IndexError"]
            ELSE LoadKeys_first_key_only([s EXCEPT !.info[Len(s.info)][k] = key_info.value],
                                         epoch, i + 1)

RECURSIVE LoadKeys(_, _, _)
\* the loop of load_epoch from the i-th declared key on
LoadKeys(s, epoch, i) ==
  IF i > Len(KeyOrder) THEN s
  ELSE LET k == KeyOrder[i]
           path == EpochPath(k, epoch)
       IN IF path \notin DOMAIN s.files THEN [s EXCEPT !.res = "FileNotFoundError"]
          ELSE LET key_info == JsonLoad(s.files[path]) IN
            IF key_info.res # "ok" THEN [s EXCEPT !.res = key_info.res]
            ELSE IF Len(s.info) = 0 THEN [s EXCEPT !.res = "IndexError"]
            ELSE LoadKeys([s EXCEPT !.info[Len(s.info)][k] = key_info.value],
                          epoch, i + 1)

\* Logger.load_epoch that writes self.info[epoch] when that record exists
Logger_load_epoch_own_slot(s, epoch) ==
  LET l == LoadKeys(s, epoch, 1) IN
  IF l.res = "ok" /\ epoch >= 0 /\ epoch + 1 < Len(s.info)
  THEN [l EXCEPT !.info = [s.info EXCEPT ![epoch + 1] = l.info[Len(l.info)]]]
  ELSE l

\* Logger.load_epoch
Logger_load_epoch(s, epoch) == LoadKeys(s, epoch, 1)

RECURSIVE LoadLoop_keeps_last(_, _)
\* LoadLoop without `del self.info[-1]`
LoadLoop_keeps_last(s, epoch) ==
  LET l == Logger_load_epoch(Logger_new_epoch(s), epoch) IN
  IF l.res = "ok" THEN LoadLoop_keeps_last(l, epoch + 1)
  ELSE IF l.res = "FileNotFoundError"
       THEN [l EXCEPT !.info[Len(l.info)] = EmptyRecord, !.is_loading = FALSE,
                      !.res = "ok"]
       ELSE l

RECURSIVE LoadLoop_keeps_partial(_, _)
\* LoadLoop that deletes the record of the epoch not found only when empty
LoadLoop_keeps_partial(s, epoch) ==
  LET l == Logger_load_epoch(Logger_new_epoch(s), epoch) IN
  IF l.res = "ok" THEN LoadLoop_keeps_partial(l, epoch + 1)
  ELSE IF l.res = "FileNotFoundError"
       THEN [l EXCEPT !.info = IF l.info[Len(l.info)] = EmptyRecord
                                THEN SubSeq(@, 1, Len(@) - 1) ELSE @,
                      !.is_loading = FALSE, !.res = "ok"]
       ELSE l

RECURSIVE LoadLoop(_, _)
\* the while loop of load, entered with the given value of epoch
LoadLoop(s, epoch) ==
  LET l == Logger_load_epoch(Logger_new_epoch(s), epoch) IN
  IF l.res = "ok" THEN LoadLoop(l, epoch + 1)
  ELSE IF l.res = "FileNotFoundError"
       THEN [l EXCEPT !.info = SubSeq(@, 1, Len(@) - 1), !.is_loading = FALSE,
                      !.res = "ok"]
       ELSE l

\* Logger.load
Logger_load(s) == LoadLoop([s EXCEPT !.is_loading = TRUE], 0)

\* Logger.__init__ on the directory that holds fs
Logger_init(fs) ==
  Logger_load([info |-> <<>>, plot_counter |-> 0, is_loading |-> FALSE,
               files |-> fs, renders |-> <<>>, res |-> "ok"])

\* ------------------------------------------------------------ the actions
Call(op, arg, s) == [op |-> op, arg |-> arg, res |-> s.res, renders |-> s.renders]

\* the variables of the object and of the directory after a method call
Becomes(s) ==
  /\ info' = s.info
  /\ plot_counter' = s.plot_counter
  /\ is_loading' = s.is_loading
  /\ files' = s.files

\* ---- summaries ----

\* sum(v), in tenths
RECURSIVE Sum(_)
Sum(v) == IF v = <<>> THEN 0 ELSE Head(v) + Sum(Tail(v))

\* sum(v) / len(v): the mean as the fraction num / den of tenths
Mean(v) ==
  IF Len(v) = 0 THEN [res |-> "ZeroDivisionError", num |-> 0, den |-> 1]
  ELSE [res |-> "ok", num |-> Sum(v), den |-> Len(v)]

\* get_key_alias(key): the body looks up the name k, which is bound neither
\* in the method nor in the module, so the lookup raises NameError; only
\* KeyError is caught
Logger_get_key_alias(key) == [res |-> "NameError", alias |-> key]

\* the loop of print_epoch_summary from the i-th declared key on: the alias
\* is evaluated first, then the mean, then the line is printed
RECURSIVE PrintKeys(_, _, _)
PrintKeys(record, out, i) ==
  IF i > Len(KeyOrder) THEN [res |-> "ok", out |-> Append(out, <<>>)]
  ELSE LET k == KeyOrder[i]
           a == Logger_get_key_alias(k)
           m == Mean(record[k])
       IN IF a.res # "ok" THEN [res |-> a.res, out |-> out]
          ELSE IF m.res # "ok" THEN [res |-> m.res, out |-> out]
          ELSE PrintKeys(record, Append(out, <<a.alias, m.num, m.den>>), i + 1)

\* print_epoch_summary(epoch): the header line is printed before the record
\* is looked up
Logger_print_epoch_summary(s, epoch) ==
  LET header == <<<<"Epoch", Format02d(epoch), "summary:">>>> IN
  IF ~InRange(s.info, epoch) THEN [res |-> "IndexError", out |-> header, files |-> s.files]
  ELSE LET p == PrintKeys(s.info[Pos(s.info, epoch)], header, 1) IN
       [res |-> p.res, out |-> p.out, files |-> s.files]

\* the loop of save_epoch_summary from the i-th declared key on
RECURSIVE SummaryKeys(_, _)
SummaryKeys(record, i) ==
  IF i > Len(KeyOrder) THEN "ok"
  ELSE IF Mean(record[KeyOrder[i]]).res # "ok" THEN Mean(record[KeyOrder[i]]).res
  ELSE SummaryKeys(record, i + 1)

\* save_epoch_summary(epoch): after the means the path is built from
\* self.dir_path, an attribute the object does not have (the constructor
\* sets log_dir_path), so AttributeError is raised before any file is opened
Logger_save_epoch_summary(s, epoch) ==
  IF ~InRange(s.info, epoch) THEN [res |-> "IndexError", out |-> <<>>, files |-> s.files]
  ELSE LET r == SummaryKeys(s.info[Pos(s.info, epoch)], 1) IN
       [res |-> IF r # "ok" THEN r ELSE "AttributeError", out |-> <<>>, files |-> s.files]

Logger_save_last_epoch_summary(s) == Logger_save_epoch_summary(s, 0 - 1)

Logger_print_last_epoch_summary(s) == Logger_print_epoch_summary(s, 0 - 1)

\* what a summary call leaves behind: its outcome and the lines it printed
SummaryCall(op, arg, r) ==
  [op |-> op, arg |-> arg, res |-> r.res, renders |-> <<>>, out |-> r.out]

\* no save_epoch(e); new_epoch(); load_epoch(e) sequence is under way
NoRoundTrip == [stage |-> 0, epoch |-> 0, record |-> EmptyRecord]
\* record e has just been saved by save_epoch(e), e in 0..Len(info)-1
Saved(s, e) ==
  IF s.res = "ok" /\ e >= 0
  THEN [stage |-> 1, epoch |-> e, record |-> s.info[e + 1]]
  ELSE NoRoundTrip

\* a directory a Logger can be pointed at: each file of the first epochs is
\* there or not, and holds a saved list
InitContent(p) == IF p[1] = "loss" THEN JsonDump(<<5>>) ELSE JsonDump(<<-15, 5>>)
InitPathSets ==
  {{}, {EpochPath("loss", 0)}, {EpochPath("acc", 0)},
   {EpochPath("loss", 0), EpochPath("acc", 0)},
   {EpochPath("loss", 0), EpochPath("acc", 0), EpochPath("loss", 1)},
   {EpochPath("loss", 1), EpochPath("acc", 1)}}
InitDirs == {[p \in S |-> InitContent(p)] : S \in InitPathSets}

Init ==
  \E fs \in InitDirs :
    LET s == Logger_init(fs) IN
    /\ periodic_plot \in BOOLEAN
    \* the period is not read without periodic_plot: one value stands for all
    /\ period \in (IF periodic_plot THEN Periods ELSE {1})
    /\ info = s.info
    /\ plot_counter = s.plot_counter
    /\ is_loading = s.is_loading
    /\ files = s.files
    /\ alive = TRUE
    /\ last = [op |-> "init", arg |-> [records |-> 0, saved |-> TRUE],
               res |-> s.res, renders |-> s.renders]
    /\ roundtrip = NoRoundTrip
    /\ dirty = {}
    /\ steps = 0
    /\ n_logged = 0
    /\ n_log_renders = 0

\* one more call is made
Step == steps < MaxSteps /\ steps' = steps + 1

\* a fresh Logger is constructed on the same directory with the same arguments
construct ==
  LET s == Logger_init(files) IN
  /\ Step
  /\ Becomes(s)
  /\ alive' = (s.res = "ok")
  /\ last' = Call("init", [records |-> Len(info), saved |-> alive /\ dirty = {}], s)
  /\ dirty' = {}
  /\ roundtrip' = NoRoundTrip
  /\ n_logged' = 0
  /\ n_log_renders' = 0
  /\ UNCHANGED <<periodic_plot, period>>

new_epoch ==
  /\ alive
  /\ Step
  /\ LET s == Logger_new_epoch(Self) IN
     /\ Becomes(s)
     /\ last' = Call("new_epoch", 0, s)
     /\ dirty' = dirty \cup {Len(s.info)}
  /\ roundtrip' = IF roundtrip.stage = 1 THEN [roundtrip EXCEPT !.stage = 2]
                  ELSE NoRoundTrip
  /\ UNCHANGED <<periodic_plot, period, alive, n_logged, n_log_renders>>

log_info ==
  /\ alive
  /\ Step
  /\ \E info_to_log \in ArgDicts :
       LET s == Logger_log_info(Self, info_to_log) IN
       /\ Becomes(s)
       /\ last' = Call("log_info", info_to_log, s)
       /\ dirty' = dirty \cup (IF Len(info) > 0 THEN {Len(info)} ELSE {})
       /\ n_logged' = IF s.res = "ok" THEN n_logged + 1 ELSE n_logged
       /\ n_log_renders' = n_log_renders + Len(s.renders)
  /\ roundtrip' = NoRoundTrip
  /\ UNCHANGED <<periodic_plot, period, alive>>

plot ==
  /\ alive
  /\ Step
  /\ LET s == Logger_plot(Self) IN
     /\ Becomes(s)
     /\ last' = Call("plot", 0, s)
  /\ roundtrip' = NoRoundTrip
  /\ UNCHANGED <<periodic_plot, period, alive, dirty, n_logged, n_log_renders>>

save_epoch ==
  /\ alive
  /\ Step
  /\ \E epoch \in EpochArgs :
       LET s == Logger_save_epoch(Self, epoch) IN
       /\ Becomes(s)
       /\ last' = Call("save_epoch", epoch, s)
       /\ dirty' = IF s.res = "ok" /\ epoch >= 0 THEN dirty \ {epoch + 1} ELSE dirty
       /\ roundtrip' = Saved(s, epoch)
  /\ UNCHANGED <<periodic_plot, period, alive, n_logged, n_log_renders>>

save_last_epoch ==
  /\ alive
  /\ Step
  /\ LET s == Logger_save_last_epoch(Self) IN
     /\ Becomes(s)
     /\ last' = Call("save_last_epoch", Len(info) - 1, s)
     /\ dirty' = IF s.res = "ok" THEN dirty \ {Len(info)} ELSE dirty
     /\ roundtrip' = Saved(s, Len(info) - 1)
  /\ UNCHANGED <<periodic_plot, period, alive, n_logged, n_log_renders>>

load_epoch ==
  /\ alive
  /\ Step
  /\ \E epoch \in EpochArgs :
       LET s == Logger_load_epoch(Self, epoch) IN
       /\ Becomes(s)
       /\ last' = Call("load_epoch", epoch, s)
       /\ dirty' = dirty \cup (IF Len(info) > 0 THEN {Len(info)} ELSE {})
       /\ roundtrip' = IF roundtrip.stage = 2 /\ roundtrip.epoch = epoch
                       THEN [roundtrip EXCEPT !.stage = 3]
                       ELSE NoRoundTrip
  /\ UNCHANGED <<periodic_plot, period, alive, n_logged, n_log_renders>>

\* a summary call changes none of the object's variables
Summarised(op, arg, r) ==
  /\ files' = r.files
  /\ last' = SummaryCall(op, arg, r)
  /\ roundtrip' = NoRoundTrip
  /\ UNCHANGED <<periodic_plot, period, info, plot_counter, is_loading, alive,
                 dirty, n_logged, n_log_renders>>

print_epoch_summary ==
  /\ alive
  /\ Step
  /\ \E epoch \in SummaryArgs :
       Summarised("print_epoch_summary", epoch, Logger_print_epoch_summary(Self, epoch))

save_epoch_summary ==
  /\ alive
  /\ Step
  /\ \E epoch \in SummaryArgs :
       Summarised("save_epoch_summary", epoch, Logger_save_epoch_summary(Self, epoch))

save_last_epoch_summary ==
  /\ alive
  /\ Step
  /\ Summarised("save_last_epoch_summary", 0 - 1, Logger_save_last_epoch_summary(Self))

print_last_epoch_summary ==
  /\ alive
  /\ Step
  /\ Summarised("print_last_epoch_summary", 0 - 1, Logger_print_last_epoch_summary(Self))

Next ==
  \/ construct
  \/ new_epoch
  \/ log_info
  \/ plot
  \/ save_epoch
  \/ save_last_epoch
  \/ load_epoch

Spec == Init /\ [][Next]_vars

\* the program with its summary operations, which read the records and
\* change none of the variables the other operations depend on
NextSummary ==
  \/ construct
  \/ new_epoch
  \/ log_info
  \/ plot
  \/ save_epoch
  \/ save_last_epoch
  \/ load_epoch
  \/ print_epoch_summary
  \/ save_epoch_summary
  \/ save_last_epoch_summary
  \/ print_last_epoch_summary

SpecSummary == Init /\ [][NextSummary]_vars

TypeOK ==
  /\ periodic_plot \in BOOLEAN
  /\ period \in Periods
  /\ steps \in 0..MaxSteps
  /\ plot_counter \in 0..MaxPeriod

\* ------------------------------------------------------------- the claims
\* the files of every declared key for epoch e exist
Persisted(fs, e) == \A k \in Keys : EpochPath(k, e) \in DOMAIN fs
\* the number k of leading persisted epochs 0..k-1
NumPersisted(fs) ==
  CHOOSE n \in 0..Cardinality(DOMAIN fs) :
    ~Persisted(fs, n) /\ \A e \in 0..(n - 1) : Persisted(fs, e)
\* what the files of epoch e hold, key by key
OnDisk(fs, e) == [k \in Keys |-> JsonLoad(fs[EpochPath(k, e)]).value]
N == Len(info)

\* C1 as stated: after construction the list holds the k persisted epochs
\* and one more record, the last, in which every key is empty.
C1_OpenEpochAfterConstruction ==
  last.op = "init" => /\ N = NumPersisted(files) + 1
                      /\ info[N] = EmptyRecord

\* C1 amended: a construction that returns leaves exactly the k persisted
\* epochs 0..k-1 in memory, as the files hold them, and no open record (an
\* empty list with nothing on disk); a construction that does not return
\* has met an empty file and fails with a JSON decode error.
C1_NoOpenEpochAfterConstruction ==
  last.op = "init" =>
    \/ /\ last.res = "ok"
       /\ N = NumPersisted(files)
       /\ \A e \in 0..(N - 1) : info[e + 1] = OnDisk(files, e)
    \/ /\ last.res = "JSONDecodeError"
       /\ \E p \in DOMAIN files : files[p] = <<>>

\* a fresh Logger has resumed two persisted epochs
C1_Witness ==
  /\ last.op = "init" /\ last.res = "ok" /\ steps > 0
  /\ N = 2 /\ NumPersisted(files) = 2

\* C2: a fresh Logger constructed on the directory of a store whose records
\* were all saved since they last changed holds the same records, in the
\* same order, for every epoch of that store.
C2_ResumeIdempotence ==
  [][(last'.op = "init" /\ last'.arg.saved /\ last'.res = "ok")
       => /\ Len(info') >= Len(info)
          /\ \A i \in 1..Len(info) : info'[i] = info[i]]_vars

\* an epoch was started, filled by log_info, saved, and resumed
C2_Witness ==
  /\ last.op = "init" /\ last.res = "ok" /\ last.arg.saved
  /\ last.arg.records >= 1 /\ N >= last.arg.records
  /\ info[last.arg.records] = [loss |-> <<-15>>, acc |-> <<5>>]

\* C3: save_epoch(e), new_epoch(), load_epoch(e), for e in 0..N-1, leaves
\* the new last record equal, key by key, to record e.
C3_RoundTrip ==
  roundtrip.stage = 3 =>
    /\ last.res = "ok"
    /\ info[N] = roundtrip.record
    /\ info[roundtrip.epoch + 1] = roundtrip.record

\* a record holding two different values made the round trip
C3_Witness ==
  /\ roundtrip.stage = 3
  /\ roundtrip.epoch + 1 < N
  /\ info[N]["acc"] = <<-15, 5>>

\* C4: a log_info call, returning or failing, adds a value to every
\* declared key of the last record or to none.
C4_KeyCompleteness ==
  [][(last'.op = "log_info" /\ N > 0)
       => \E d \in {0, 1} : \A k \in Keys :
            Len(info'[N][k]) = Len(info[N][k]) + d]_vars

\* the argument of log_info lacks a declared key or holds a non-float for one
BadArg(info_to_log) ==
  \E k \in Keys : k \notin DOMAIN info_to_log \/ info_to_log[k].type # "float"

\* C5 as stated: log_info fails exactly when its argument lacks a declared
\* key or holds a non-float for one.
C5_FailsIffBadArgument ==
  last.op = "log_info" => (last.res # "ok" <=> BadArg(last.arg))

\* C5 amended: log_info fails whenever its argument lacks a declared key or
\* holds a non-float for one; with a float for every declared key (other
\* keys are ignored) it succeeds when the store holds a record and the
\* period is not zero under periodic plotting, fails with IndexError when
\* the store holds no record, and with ZeroDivisionError on a zero period.
C5_FailsOnBadArgument ==
  last.op = "log_info" =>
    /\ BadArg(last.arg) => last.res \in {"KeyError", "AssertionError", "IndexError"}
    /\ ~BadArg(last.arg) =>
         last.res = IF N = 0 THEN "IndexError"
                    ELSE IF periodic_plot /\ period = 0 THEN "ZeroDivisionError"
                    ELSE "ok"

\* a call with an undeclared key returned and logged the declared ones
C5_Witness ==
  /\ last.op = "log_info" /\ last.res = "ok"
  /\ "extra" \in DOMAIN last.arg
  /\ \A k \in Keys : info[N][k] # <<>> /\ info[N][k][Len(info[N][k])] = last.arg[k].v

\* C6: with periodic plotting and a period P >= 1, after n log_info calls
\* that returned since construction, log_info has triggered n div P renders
\* and the counter is n mod P, whatever other calls were made in between;
\* a call that returns renders exactly when it makes n a multiple of P, and
\* a call that fails renders nothing.
C6_OneRenderPerPeriod ==
  (periodic_plot /\ period >= 1) =>
    /\ n_log_renders = n_logged \div period
    /\ plot_counter = n_logged % period
    /\ last.op = "log_info" =>
         Len(last.renders) = IF last.res = "ok" /\ n_logged % period = 0 THEN 1 ELSE 0

\* the third call with period 2: one render so far, none by this call
C6_Witness ==
  /\ periodic_plot /\ period = 2
  /\ last.op = "log_info" /\ last.res = "ok"
  /\ n_logged = 3 /\ n_log_renders = 1 /\ N >= 2

\* C7: a new_epoch call made after construction renders once under periodic
\* plotting (and not at all without it), the render seeing the records that
\* existed before the call; construction renders nothing, however many
\* epochs it resumes, and leaves is_loading false when it returns.
C7_RenderOnNewEpoch ==
  /\ last.op = "new_epoch" =>
       IF periodic_plot
       THEN Len(last.renders) = 1 /\ last.renders[1].seen = N - 1
       ELSE last.renders = <<>>
  /\ last.op = "init" =>
       /\ last.renders = <<>>
       /\ last.res = "ok" => ~is_loading

\* under periodic plotting, new_epoch on a store of resumed records
C7_Witness ==
  /\ periodic_plot
  /\ last.op = "new_epoch"
  /\ N = 3 /\ NumPersisted(files) = 2
  /\ last.renders[1].series["acc"] = <<-15, 5, -15, 5>>

\* C8 as stated: save_epoch(e) fails for every e outside 0..N-1, negative
\* e included.
C8_FailsOutsideZeroToN ==
  last.op = "save_epoch" => (last.arg \notin 0..(N - 1) => last.res # "ok")

\* C8 amended: save_epoch(e) fails, with IndexError, exactly when e >= N or
\* e < -N; a negative e in -N..-1 saves record N+e under the name of e;
\* save_last_epoch on a store without record fails.
C8_FailsOutsideListRange ==
  /\ last.op = "save_epoch" =>
       IF last.arg < N /\ last.arg >= 0 - N
       THEN /\ last.res = "ok"
            /\ \A k \in Keys :
                 files[EpochPath(k, last.arg)]
                   = JsonDump(info[IF last.arg < 0 THEN N + last.arg + 1
                                   ELSE last.arg + 1][k])
       ELSE last.res = "IndexError"
  /\ (last.op = "save_last_epoch" /\ N = 0) => last.res = "IndexError"

\* save_epoch(-1) has saved the last of two records
C8_Witness ==
  /\ last.op = "save_epoch" /\ last.arg = 0 - 1 /\ last.res = "ok"
  /\ N = 2
  /\ files[EpochPath("acc", 0 - 1)] = JsonDump(<<5>>)

\* the file of key k for epoch e is missing, or is there and empty
Missing(k, e) == EpochPath(k, e) \notin DOMAIN files
Empty(k, e) == ~Missing(k, e) /\ files[EpochPath(k, e)] = <<>>

\* C9 as stated: load_epoch(e) fails with the not-found error when the file
\* of some declared key is missing, and succeeds when all are there.
C9_NotFoundIffMissing ==
  last.op = "load_epoch" =>
    last.res = IF \E k \in Keys : Missing(k, last.arg) THEN "FileNotFoundError"
               ELSE "ok"

\* C9 amended: load_epoch(e) fails when the file of some declared key is
\* missing, whichever key it is; the error is the not-found error when the
\* store holds a record and no file of an earlier declared key is empty;
\* load_epoch(e) succeeds when the store holds a record and every declared
\* key's file is there and not empty.
C9_FailsIfMissing ==
  last.op = "load_epoch" =>
    LET e == last.arg
        missing == {i \in 1..Len(KeyOrder) : Missing(KeyOrder[i], e)}
    IN /\ missing # {} =>
            /\ last.res # "ok"
            /\ (N > 0 /\ \A i \in 1..Len(KeyOrder) :
                           (\A j \in missing : i < j) => ~Empty(KeyOrder[i], e))
                 => last.res = "FileNotFoundError"
       /\ (N > 0 /\ \A k \in Keys : ~Missing(k, e) /\ ~Empty(k, e))
            => last.res = "ok"

\* not found: the file of the first key is there, the second key's is not
C9_Witness ==
  /\ last.op = "load_epoch" /\ last.res = "FileNotFoundError"
  /\ N > 0
  /\ ~Missing("loss", last.arg) /\ Missing("acc", last.arg)

\* C10: a load_epoch(e) that returns leaves in the last record, for every
\* declared key, what the key's file of epoch e holds, and changes no
\* other record, record e included when it is not the last.
C10_LoadsIntoLastRecord ==
  [][(last'.op = "load_epoch" /\ last'.res = "ok")
       => /\ Len(info') = Len(info)
          /\ \A i \in 1..(Len(info) - 1) : info'[i] = info[i]
          /\ info'[Len(info)] = OnDisk(files, last'.arg)]_vars

\* epoch 0 loaded into the second record, record 0 having changed since
C10_Witness ==
  /\ last.op = "load_epoch" /\ last.res = "ok"
  /\ last.arg = 0 /\ N = 2
  /\ info[2] = OnDisk(files, 0)
  /\ info[2]["acc"] = <<-15, 5>>
  /\ info[1] # info[2]

\* C11: in every reachable state every in-memory record has exactly the
\* declared keys, after failing calls too.
C11_ExactKeySet ==
  \A i \in 1..N : DOMAIN info[i] = Keys

\* a load_epoch that failed after it had replaced the first key
C11_Witness ==
  /\ last.op = "load_epoch" /\ last.res = "FileNotFoundError"
  /\ N = 2 /\ info[2]["loss"] # <<>> /\ info[2]["acc"] = <<>>
  /\ DOMAIN info[2] = Keys

\* sequence a is the beginning of sequence b
IsPrefix(a, b) == Len(a) <= Len(b) /\ SubSeq(b, 1, Len(a)) = a

\* C12 as stated: no call after construction changes a record other than
\* the last, and the last record only grows by appended values.
C12_OnlyAppends ==
  [][last'.op # "init"
       => /\ Len(info') >= Len(info)
          /\ \A i \in 1..(Len(info) - 1) : info'[i] = info[i]
          /\ Len(info) > 0 =>
               \A k \in Keys : IsPrefix(info[Len(info)][k], info'[Len(info)][k])]_vars

\* C12 amended: no call after construction changes a record other than the
\* last; new_epoch, log_info, save_epoch, save_last_epoch and plot leave
\* the last record as it was or with values appended; load_epoch replaces,
\* key by key, the sequences of the last record by what the files hold.
C12_OnlyAppendsOrLoads ==
  [][last'.op # "init"
       => /\ Len(info') >= Len(info)
          /\ \A i \in 1..(Len(info) - 1) : info'[i] = info[i]
          /\ Len(info) > 0 =>
               \A k \in Keys :
                 IF last'.op = "load_epoch"
                 THEN \/ info'[Len(info)][k] = info[Len(info)][k]
                      \/ /\ EpochPath(k, last'.arg) \in DOMAIN files
                         /\ info'[Len(info)][k]
                              = JsonLoad(files[EpochPath(k, last'.arg)]).value
                 ELSE IsPrefix(info[Len(info)][k], info'[Len(info)][k])]_vars

\* log_info has appended to the second record, after the values it held
C12_Witness ==
  /\ last.op = "log_info" /\ last.res = "ok"
  /\ N = 2 /\ info[1]["acc"] = <<-15, 5>>
  /\ info[2] = [loss |-> <<5, -15>>, acc |-> <<-15, 5>>]

RECURSIVE TotalLen(_, _, _)
\* the number of values of key k in the first n records
TotalLen(inf, k, n) == IF n = 0 THEN 0 ELSE TotalLen(inf, k, n - 1) + Len(inf[n][k])

\* series holds the values of key k of all records, in epoch order
IsConcatenation(series, inf, k) ==
  /\ Len(series) = TotalLen(inf, k, Len(inf))
  /\ \A i \in 1..Len(inf) : \A j \in 1..Len(inf[i][k]) :
       series[TotalLen(inf, k, i - 1) + j] = inf[i][k][j]

\* C13: every render draws, for every declared key, the values of the key
\* over all records in epoch order; a plot call renders once and changes
\* neither the records nor the plot counter.
C13_PlotConcatenates ==
  [][/\ \A r \in 1..Len(last'.renders) : \A k \in Keys :
          IsConcatenation(last'.renders[r].series[k], info', k)
     /\ last'.op = "plot" =>
          /\ Len(last'.renders) = 1
          /\ info' = info /\ plot_counter' = plot_counter /\ files' = files]_vars

\* plot has drawn the values of two records
C13_Witness ==
  /\ last.op = "plot" /\ N = 2
  /\ last.renders[1].series = [loss |-> <<5, -15>>, acc |-> <<-15, 5, 5>>]

\* C17: a construction that returns has loaded the epochs in increasing
\* order up to the first epoch of which some declared key's file is missing:
\* the records are the epochs 0..N-1, each as its files hold it, every key
\* of them, and epoch N is not persisted for every key; nothing of a partly
\* persisted epoch N, or of epochs after it, is in memory.
C17_ResumeStopsAtFirstGap ==
  (last.op = "init" /\ last.res = "ok") =>
    /\ \A e \in 0..(N - 1) :
         /\ Persisted(files, e)
         /\ \A k \in Keys : info[e + 1][k] = JsonLoad(files[EpochPath(k, e)]).value
    /\ \E k \in Keys : Missing(k, N)
    /\ ~is_loading

\* resumed one epoch; the next is persisted for the first key only
C17_Witness ==
  /\ last.op = "init" /\ last.res = "ok" /\ steps > 0
  /\ N = 1
  /\ ~Missing("loss", 1) /\ Missing("acc", 1)

\* C18: a load_epoch call made directly after construction that fails with
\* the not-found error leaves the records as they were.
C18_FailedLoadChangesNothing ==
  [][(last.op = "init" /\ last'.op = "load_epoch"
        /\ last'.res = "FileNotFoundError") => info' = info]_vars

\* C19: a save_epoch call that fails leaves the directory as it was; one
\* that returns writes only the files of its epoch and changes neither the
\* records nor the plot counter.
C19_FailedSaveChangesNothing ==
  [][last'.op \in {"save_epoch", "save_last_epoch"} =>
       IF last'.res # "ok" THEN files' = files
       ELSE /\ info' = info /\ plot_counter' = plot_counter
            /\ DOMAIN files' = DOMAIN files \cup {EpochPath(k, last'.arg) : k \in Keys}
            /\ \A p \in DOMAIN files :
                 p \notin {EpochPath(k, last'.arg) : k \in Keys} => files'[p] = files[p]]_vars

\* the epoch a summary call was made for has a value for every declared key
SummaryOps == {"print_epoch_summary", "print_last_epoch_summary",
               "save_epoch_summary", "save_last_epoch_summary"}
AllKeysRecorded(inf, epoch) ==
  InRange(inf, epoch) /\ \A k \in Keys : inf[Pos(inf, epoch)][k] # <<>>
SomeKeyEmpty(inf, epoch) ==
  InRange(inf, epoch) /\ \E k \in Keys : inf[Pos(inf, epoch)][k] = <<>>

\* C14: save_epoch_summary(e) and save_last_epoch_summary, called for an
\* epoch in which every declared key has a value, return without error and
\* write exactly one file.
C14_SaveSummaryWritesOneFile ==
  [][(last'.op \in {"save_epoch_summary", "save_last_epoch_summary"}
        /\ AllKeysRecorded(info, last'.arg)) =>
       /\ last'.res = "ok"
       /\ Cardinality({p \in DOMAIN files' :
                         p \notin DOMAIN files \/ files'[p] # files[p]}) = 1]_vars

\* C15: print_epoch_summary(e) and print_last_epoch_summary, called for an
\* epoch in which every declared key has a value, return without error and
\* print, between the header and the blank line, one line per declared key
\* that starts with the key (no alias is configured).
C15_PrintSummaryPrintsKeyLines ==
  (last.op \in {"print_epoch_summary", "print_last_epoch_summary"}
     /\ AllKeysRecorded(info, last.arg)) =>
    /\ last.res = "ok"
    /\ Len(last.out) = Len(KeyOrder) + 2
    /\ \A i \in 1..Len(KeyOrder) : last.out[i + 1][1] = KeyOrder[i]

\* C16: the print and the save summary, called for an epoch in which some
\* declared key has no value, both fail with the division-by-zero error,
\* and no file is written.
C16_EmptyKeyDividesByZero ==
  [][(last'.op \in SummaryOps /\ SomeKeyEmpty(info, last'.arg)) =>
       /\ last'.res = "ZeroDivisionError"
       /\ files' = files]_vars
====
